---- MODULE Spec2Model ----
(***************************************************************************)
(* RedisService (cache-aside accessor over a redis client) together with   *)
(* initializeRedis, which creates and connects the shared redisClient.     *)
(*                                                                         *)
(* Every asynchronous operation is cut at its awaits: one action per       *)
(* segment of code that runs between two suspension points.  A store       *)
(* command and its completion form one step; the fallback producer is a    *)
(* step of its own whose outcome (a value, a rejected promise, or a        *)
(* synchronous throw) is chosen nondeterministically.                      *)
(***************************************************************************)
EXTENDS Integers, Sequences, FiniteSets, TLC

\* ---------------------------------------------------------------- bounds
MaxCalls == 1        \* calls started in one behaviour
MaxTtl == 2          \* ttl arguments and expiries range over 0..MaxTtl
MaxProcs == 2        \* calls that can be in flight at once

\* ------------------------------------------------------------- universes
Procs == 1..MaxProcs
Keys == {"k"}
Fields == {"f", "g"}
JFields == {"a", "b"}
JNums == {0, 1}

\* An optional number is the empty set (undefined) or a singleton.
NoTtl == {}
TtlOpts == {NoTtl} \cup {{n} : n \in 0..MaxTtl}

\* JavaScript values, tagged.
Null == [t |-> "null"]
Undef == [t |-> "undef"]
Str(s) == [t |-> "str", v |-> s]
Num(n) == [t |-> "num", v |-> n]
Bool(b) == [t |-> "bool", v |-> b]
Obj(m) == [t |-> "obj", v |-> m]
Rejected == [t |-> "reject"]
Thrown == [t |-> "throw"]
NoRet == [t |-> "pending"]
Raised == [t |-> "raise"]

\* Partial maps over a set of names.
PMaps(D, R) == UNION {[S -> R] : S \in SUBSET D}
EmptyMap == <<>>

\* JavaScript truthiness: !!x
Truthy(x) ==
    CASE x.t = "null" -> FALSE
      [] x.t = "undef" -> FALSE
      [] x.t = "str" -> x.v # ""
      [] x.t = "num" -> x.v # 0
      [] x.t = "bool" -> x.v
      [] OTHER -> TRUE

\* isDefined(obj): obj !== undefined && obj !== null
isDefined(ttl) == ttl # NoTtl

\* `if (ttl)` on an optional number
TtlTruthy(ttl) == ttl # NoTtl /\ ttl # {0}

\* `ttl && ttl > 0`
TtlPositive(ttl) == TtlTruthy(ttl) /\ \A n \in ttl : n > 0

\* ----------------------------------------------------------------- store
\* What one key of the store holds.
Absent == [t |-> "none"]
SString(s) == [t |-> "string", v |-> s]
SHash(m) == [t |-> "hash", v |-> m]
SJson(d) == [t |-> "json", v |-> d]
SJsonNull == [t |-> "jsonnull"]

StrVals == {"", "X"}
HashVals == {"", "Y"}
HashMaps == PMaps(Fields, HashVals) \ {EmptyMap}
JsonDocs == PMaps(JFields, JNums)
StoreVals == {Absent} \cup {SString(s) : s \in StrVals}
             \cup {SHash(m) : m \in HashMaps}
             \cup {SJson(d) : d \in JsonDocs} \cup {SJsonNull}

VARIABLES
    store,        \* key -> what the store holds at the key
    expiry,       \* key -> optional time to live of the key
    redisClient,  \* "undefined" | "connecting" | "connected" | "null"
    enable,       \* config.redis.enable
    initPc,       \* position of initializeRedis
    calls,        \* process -> the call it runs
    started       \* number of calls started so far

vars == <<store, expiry, redisClient, enable, initPc, calls, started>>

\* a gate that tests `redis !== null` and so lets the unset handle through
isRedisInitializedNotNull(redis) == redis # "null"

\* isRedisInitialized(redis): !!redis
isRedisInitialized(redis) == redis \in {"connecting", "connected"}

\* ------------------------------------------------- the store's commands
\* Each command yields whether it succeeded, the value it replies with, and
\* what the key holds and its time to live afterwards.
Reply(ok, val, st, ex) == [ok |-> ok, val |-> val, st |-> st, ex |-> ex]
Failed(k) == Reply(FALSE, Null, store[k], expiry[k])
Same(k, val) == Reply(TRUE, val, store[k], expiry[k])

\* GET key
redisGet(k) ==
    CASE store[k].t = "none" -> Same(k, Null)
      [] store[k].t = "string" -> Same(k, Str(store[k].v))
      [] OTHER -> Failed(k)

\* a SET that keeps the value of a key that already holds one (SET ... NX)
redisSetIfAbsent(k, s) ==
    IF store[k] = Absent THEN Reply(TRUE, Null, SString(s), NoTtl) ELSE Same(k, Null)

\* SET key value: replaces whatever the key holds and drops its time to live
redisSet(k, s) == Reply(TRUE, Null, SString(s), NoTtl)

\* EXPIRE key seconds: no effect on an absent key, removes the key at 0
redisExpire(k, n) ==
    CASE store[k].t = "none" -> Same(k, Null)
      [] n = 0 -> Reply(TRUE, Null, Absent, NoTtl)
      [] OTHER -> Reply(TRUE, Null, store[k], {n})

\* DEL key
redisDel(k) == Reply(TRUE, Null, Absent, NoTtl)

\* HGET key field
redisHGet(k, f) ==
    CASE store[k].t = "none" -> Same(k, Null)
      [] store[k].t = "hash" ->
            Same(k, IF f \in DOMAIN store[k].v THEN Str(store[k].v[f]) ELSE Null)
      [] OTHER -> Failed(k)

\* HSET key field value [field value ...]: merges into the hash at key
Merge(old, m) ==
    [f \in DOMAIN old \cup DOMAIN m |-> IF f \in DOMAIN m THEN m[f] ELSE old[f]]
redisHSet(k, m) ==
    CASE store[k].t = "none" -> Reply(TRUE, Null, SHash(Merge(EmptyMap, m)), NoTtl)
      [] store[k].t = "hash" -> Reply(TRUE, Null, SHash(Merge(store[k].v, m)), expiry[k])
      [] OTHER -> Failed(k)

\* HGETALL key: an absent key reads as the empty object
redisHGetAll(k) ==
    CASE store[k].t = "none" -> Same(k, Obj(EmptyMap))
      [] store[k].t = "hash" -> Same(k, Obj(store[k].v))
      [] OTHER -> Failed(k)

\* HDEL key field [field ...]: a hash left without fields is removed
redisHDel(k, F) ==
    CASE store[k].t = "none" -> Same(k, Null)
      [] store[k].t = "hash" ->
            LET rest == [f \in DOMAIN store[k].v \ F |-> store[k].v[f]]
            IN  IF DOMAIN rest = {} THEN Reply(TRUE, Null, Absent, NoTtl)
                ELSE Reply(TRUE, Null, SHash(rest), expiry[k])
      [] OTHER -> Failed(k)

\* JSON.GET key [path]: the document, or the member at the path, else null
redisJsonGet(k, path) ==
    CASE store[k].t = "none" -> Same(k, Null)
      [] store[k].t = "jsonnull" -> Same(k, Null)
      [] store[k].t = "json" ->
            IF path = "$" THEN Same(k, Obj(store[k].v))
            ELSE Same(k, IF path \in DOMAIN store[k].v
                         THEN Num(store[k].v[path]) ELSE Null)
      [] OTHER -> Failed(k)

\* a JSON.SET that merges an object written at the root into the document
redisJsonSetMerge(k, path, x) ==
    CASE store[k].t \in {"string", "hash"} -> Failed(k)
      [] path = "$" /\ x.t = "obj" /\ store[k].t = "json" ->
            Reply(TRUE, Null,
                  SJson([f \in DOMAIN store[k].v \cup DOMAIN x.v |->
                            IF f \in DOMAIN x.v THEN x.v[f] ELSE store[k].v[f]]),
                  expiry[k])
      [] path = "$" /\ x.t = "obj" -> Reply(TRUE, Null, SJson(x.v), expiry[k])
      [] path = "$" /\ x.t = "null" -> Reply(TRUE, Null, SJsonNull, expiry[k])
      [] path # "$" /\ x.t = "num" /\ store[k].t = "json" ->
            Reply(TRUE, Null,
                  SJson([f \in DOMAIN store[k].v \cup {path} |->
                            IF f = path THEN x.v ELSE store[k].v[f]]),
                  expiry[k])
      [] OTHER -> Failed(k)

\* JSON.SET key path value: at the root it replaces the document; below the
\* root it needs an existing object
redisJsonSet(k, path, x) ==
    CASE store[k].t \in {"string", "hash"} -> Failed(k)
      [] path = "$" /\ x.t = "obj" -> Reply(TRUE, Null, SJson(x.v), expiry[k])
      [] path = "$" /\ x.t = "null" -> Reply(TRUE, Null, SJsonNull, expiry[k])
      [] path # "$" /\ x.t = "num" /\ store[k].t = "json" ->
            Reply(TRUE, Null,
                  SJson([f \in DOMAIN store[k].v \cup {path} |->
                            IF f = path THEN x.v ELSE store[k].v[f]]),
                  expiry[k])
      [] OTHER -> Failed(k)

\* ----------------------------------------------------------------- calls
IdleCall ==
    [op |-> "none", pc |-> "idle", key |-> "", flds |-> {}, map |-> EmptyMap,
     path |-> "", value |-> Undef, ttl |-> NoTtl, reset |-> TRUE,
     bypass |-> FALSE, gate |-> "", inner |-> FALSE, result |-> Undef,
     data |-> Undef, log |-> <<>>, fbs |-> <<>>, ret |-> NoRet, intf |-> FALSE,
     pre |-> Absent, last |-> FALSE]

\* a call records the handle it found at the gate and what the key held then
NewCall(op, k) ==
    [IdleCall EXCEPT !.op = op, !.key = k, !.gate = redisClient, !.pre = store[k]]

\* one entry of a call's record of the store commands it issued
Cmd(name, ok, hit, arg) == [cmd |-> name, ok |-> ok, hit |-> hit, arg |-> arg]
Logged(c, name, r, arg) ==
    [c EXCEPT !.log = Append(@, Cmd(name, r.ok, r.ok /\ Truthy(r.val), arg))]

Finish(c, v) == [c EXCEPT !.pc = "done", !.ret = v]
Goto(c, pc) == [c EXCEPT !.pc = pc]

\* A call takes the first free process, when the budget allows and the call
\* before it has been collected.
CanStart(p) ==
    /\ calls[p].pc = "idle"
    /\ \A q \in Procs : q < p => calls[q].pc # "idle"
    /\ started < MaxCalls
    /\ \A q \in Procs : calls[q].pc = "idle"

\* Overlapping calls: a call takes the first free process while others run.
CanStartConc(p) ==
    /\ calls[p].pc = "idle"
    /\ \A q \in Procs : q < p => calls[q].pc # "idle"

\* A command completes once the connection attempt has settled: it can fail
\* on a live connection and always fails on one that never came up.
Outcomes == IF redisClient = "connected" THEN BOOLEAN ELSE {TRUE}
Settled == redisClient # "connecting"
Run(k, r, fail) == IF fail THEN Failed(k) ELSE r

\* the other calls in flight on the key see the key change under them
Touch(cs, p, k, changed) ==
    [q \in Procs |->
        IF changed /\ q # p /\ cs[q].pc # "idle" /\ cs[q].key = k
        THEN [cs[q] EXCEPT !.intf = TRUE] ELSE cs[q]]

\* the store executes commands one at a time: the call whose writing command
\* it executed most recently on the key is the last writer
Writes(c) ==
    /\ c.log # <<>>
    /\ c.log[Len(c.log)].ok
    /\ c.log[Len(c.log)].cmd \in {"set", "hSet", "json.set", "del", "hDel", "expire"}
Order(cs, p, k, wrote) ==
    [q \in Procs |->
        IF wrote /\ cs[q].pc # "idle" /\ cs[q].key = k
        THEN [cs[q] EXCEPT !.last = (q = p)] ELSE cs[q]]

\* apply a command's reply and move the call on
Apply(p, k, r, c) ==
    /\ store' = [store EXCEPT ![k] = r.st]
    /\ expiry' = [expiry EXCEPT ![k] = r.ex]
    /\ calls' = Order(Touch([calls EXCEPT ![p] = c], p, k,
                            r.st # store[k] \/ r.ex # expiry[k]),
                      p, k, Writes(c))
    /\ UNCHANGED <<redisClient, enable, initPc, started>>

\* a step that only moves the call
Local(p, c) ==
    /\ calls' = [calls EXCEPT ![p] = c]
    /\ UNCHANGED <<store, expiry, redisClient, enable, initPc, started>>

Begin(p, c) ==
    /\ calls' = [calls EXCEPT ![p] = c]
    /\ started' = started + 1
    /\ UNCHANGED <<store, expiry, redisClient, enable, initPc>>

\* what the fallback producer can do when invoked
Failures == {Rejected, Thrown}
FbGet == {Str("Z"), Str("W"), Str(""), Undef}
Invoked(c, out) == [c EXCEPT !.fbs = Append(@, out)]

\* `return fallback()` outside any try (lines 39, 60, 124, 188 and the catch
\* blocks): the producer's outcome is the call's outcome
FallbackTail(p, op, outs) ==
    /\ calls[p].pc = "fb_tail" /\ calls[p].op = op
    /\ \E out \in outs \cup Failures :
          Local(p, Finish(Invoked(calls[p], out),
                          IF out \in Failures THEN Raised ELSE out))

\* `return ... : fallback()` inside the try, not awaited: a synchronous throw
\* is caught, a rejected promise is not
FallbackTry(p, op, outs) ==
    /\ calls[p].pc = "fb_try" /\ calls[p].op = op
    /\ \E out \in outs \cup Failures :
          Local(p, CASE out = Thrown -> Goto(Invoked(calls[p], out), "fb_tail")
                     [] out = Rejected -> Finish(Invoked(calls[p], out), Raised)
                     [] OTHER -> Finish(Invoked(calls[p], out), out))

\* ------------------------------------------------------------------- set
\* what set, and jsonSet, hand back: to the caller, or to get / jsonGet
\* which ignore it and return dataToCache
ReturnRaising(c, b) ==
    IF c.inner THEN (IF b THEN Finish(c, c.data) ELSE Finish(c, Raised))
    ELSE Finish(c, Bool(b))

\* a set whose catch block reports success
ReturnTrue(c, b) == IF c.inner THEN Finish(c, c.data) ELSE Finish(c, Bool(TRUE))

Return(c, b) == IF c.inner THEN Finish(c, c.data) ELSE Finish(c, Bool(b))

\* set, lines 158-165: the gate, then the write is issued
SetEnter(c) ==
    IF ~isRedisInitialized(redisClient) THEN Return(c, FALSE)
    ELSE Goto(c, "set_write")

SetBegin(p, ttls) ==
    \E k \in Keys, s \in StrVals, ttl \in ttls :
        Begin(p, SetEnter([NewCall("set", k) EXCEPT !.value = Str(s), !.ttl = ttl]))

SetStart(p) == CanStart(p) /\ SetBegin(p, TtlOpts)
\* overlapping calls pass no ttl
SetStartConc(p) == CanStartConc(p) /\ SetBegin(p, {NoTtl})

\* set, lines 165-173: the write completes
SetWrite(p) ==
    /\ calls[p].pc = "set_write" /\ Settled
    /\ \E fail \in Outcomes :
          LET c == calls[p]
              r == Run(c.key, redisSet(c.key, c.value.v), fail)
              d == Logged(c, "set", r, NoTtl)
          IN  Apply(p, c.key, r,
                    IF ~r.ok THEN Return(d, FALSE)
                    ELSE IF isDefined(c.ttl) THEN Goto(d, "set_expire")
                    ELSE Return(d, TRUE))

\* set, lines 167-173: the expire completes
SetExpire(p) ==
    /\ calls[p].pc = "set_expire" /\ Settled
    /\ \E fail \in Outcomes, n \in calls[p].ttl :
          LET c == calls[p]
              r == Run(c.key, redisExpire(c.key, n), fail)
              d == Logged(c, "expire", r, c.ttl)
          IN  Apply(p, c.key, r, Return(d, r.ok))

\* ------------------------------------------------------------------- get
\* get, lines 186-194
GetBegin(p, ttls, resets, bypasses) ==
    \E k \in Keys, ttl \in ttls, reset \in resets, bypass \in bypasses :
        LET c == [NewCall("get", k) EXCEPT !.ttl = ttl, !.reset = reset,
                                             !.bypass = bypass]
        IN  Begin(p, IF ~isRedisInitialized(redisClient) THEN Goto(c, "fb_tail")
                     ELSE Goto(c, "get_read"))

GetStart(p) == CanStart(p) /\ GetBegin(p, TtlOpts, BOOLEAN, BOOLEAN)
\* overlapping calls take the default options (line 191)
GetStartConc(p) == CanStartConc(p) /\ GetBegin(p, {NoTtl}, {TRUE}, {FALSE})

\* lines 195 and 131: !result && resetIfNotFound
PopulateAlways(c, val) == ~Truthy(val)

Populate(c, val) == ~Truthy(val) /\ c.reset

\* get, lines 194-214: the read completes
GetRead(p) ==
    /\ calls[p].pc = "get_read" /\ Settled
    /\ \E fail \in Outcomes :
          LET c == calls[p]
              r == Run(c.key, redisGet(c.key), fail)
              d == [Logged(c, "get", r, NoTtl) EXCEPT !.result = r.val]
          IN  Apply(p, c.key, r,
                    CASE ~r.ok -> Goto(d, "fb_tail")
                      [] r.ok /\ Populate(c, r.val) -> Goto(d, "fb_await")
                      [] r.ok /\ ~Populate(c, r.val) /\ c.bypass ->
                            Finish(d, r.val)
                      [] OTHER -> IF Truthy(r.val) THEN Finish(d, r.val)
                                  ELSE Goto(d, "fb_try"))

\* a get that returns dataToCache without caching it
WriteBackNever(c, out) == Finish([c EXCEPT !.data = out], out)

\* get, lines 198-204: a truthy dataToCache goes to set, then it is returned
WriteBack(c, out) ==
    IF Truthy(out)
    THEN SetEnter([c EXCEPT !.data = out, !.value = out, !.inner = TRUE])
    ELSE Finish([c EXCEPT !.data = out], out)

\* get, lines 196-204: the awaited fallback settles
GetFallbackAwait(p) ==
    /\ calls[p].pc = "fb_await" /\ calls[p].op = "get"
    /\ \E out \in FbGet \cup Failures :
          LET c == Invoked(calls[p], out)
          IN  Local(p, IF out \in Failures THEN Goto(c, "fb_tail")
                       ELSE WriteBack(c, out))

GetFallbackTry(p) == FallbackTry(p, "get", FbGet)
GetFallbackTail(p) == FallbackTail(p, "get", FbGet)

\* ------------------------------------------------------------------- del
\* a del that reports the unavailable store as a failure
DelDeniedFalse == Bool(FALSE)

\* del, line 221: what del returns when the gate denies access
DelDenied == Bool(TRUE)

\* del, lines 219-224
DelStart(p) ==
    /\ CanStart(p)
    /\ \E k \in Keys :
          Begin(p, IF ~isRedisInitialized(redisClient)
                   THEN Finish(NewCall("del", k), DelDenied)
                   ELSE Goto(NewCall("del", k), "del_cmd"))

\* del, lines 224-228
DelCmd(p) ==
    /\ calls[p].pc = "del_cmd" /\ Settled
    /\ \E fail \in Outcomes :
          LET c == calls[p]
              r == Run(c.key, redisDel(c.key), fail)
          IN  Apply(p, c.key, r, Finish(Logged(c, "del", r, NoTtl), Bool(r.ok)))

\* ------------------------------------------------------------------ hSet
\* hSet, lines 15-20
HSetStart(p) ==
    /\ CanStart(p)
    /\ \E k \in Keys, m \in HashMaps, ttl \in TtlOpts :
          LET c == [NewCall("hSet", k) EXCEPT !.map = m, !.ttl = ttl]
          IN  Begin(p, IF ~isRedisInitialized(redisClient) THEN Finish(c, Bool(FALSE))
                       ELSE Goto(c, "hset_write"))

\* hSet, lines 20-27: the write completes
HSetWrite(p) ==
    /\ calls[p].pc = "hset_write" /\ Settled
    /\ \E fail \in Outcomes :
          LET c == calls[p]
              r == Run(c.key, redisHSet(c.key, c.map), fail)
              d == Logged(c, "hSet", r, NoTtl)
          IN  Apply(p, c.key, r,
                    IF ~r.ok THEN Finish(d, Bool(FALSE))
                    ELSE IF TtlTruthy(c.ttl) THEN Goto(d, "hset_expire")
                    ELSE Finish(d, Bool(TRUE)))

\* hSet, lines 22-27: the expire completes
HSetExpire(p) ==
    /\ calls[p].pc = "hset_expire" /\ Settled
    /\ \E fail \in Outcomes, n \in calls[p].ttl :
          LET c == calls[p]
              r == Run(c.key, redisExpire(c.key, n), fail)
          IN  Apply(p, c.key, r, Finish(Logged(c, "expire", r, c.ttl), Bool(r.ok)))

\* ------------------------------------------------------------------ hGet
FbHGet == {Str("Z"), Null}

\* hGet, lines 37-42
HGetStart(p) ==
    /\ CanStart(p)
    /\ \E k \in Keys, f \in Fields, ttl \in TtlOpts :
          LET c == [NewCall("hGet", k) EXCEPT !.flds = {f}, !.ttl = ttl]
          IN  Begin(p, IF ~isRedisInitialized(redisClient) THEN Goto(c, "fb_tail")
                       ELSE Goto(c, "hget_read"))

\* an hGet that refreshes on any defined ttl, as set does
HGetRefreshDefined(c) == isDefined(c.ttl)

\* hGet, line 43: if (ttl)
HGetRefresh(c) == TtlTruthy(c.ttl)

\* an hGet that always asks the fallback
HGetResultFallback(c) == Goto(c, "fb_try")

\* hGet, line 46: return value ? value : fallback()
HGetResult(c) == IF Truthy(c.result) THEN Finish(c, c.result) ELSE Goto(c, "fb_try")

\* hGet, lines 42-49: the read completes
HGetRead(p) ==
    /\ calls[p].pc = "hget_read" /\ Settled
    /\ \E fail \in Outcomes, f \in calls[p].flds :
          LET c == calls[p]
              r == Run(c.key, redisHGet(c.key, f), fail)
              d == [Logged(c, "hGet", r, NoTtl) EXCEPT !.result = r.val]
          IN  Apply(p, c.key, r,
                    IF ~r.ok THEN Goto(d, "fb_tail")
                    ELSE IF HGetRefresh(c) THEN Goto(d, "hget_expire")
                    ELSE HGetResult(d))

\* hGet, lines 44-49: the expire completes
HGetExpire(p) ==
    /\ calls[p].pc = "hget_expire" /\ Settled
    /\ \E fail \in Outcomes, n \in calls[p].ttl :
          LET c == calls[p]
              r == Run(c.key, redisExpire(c.key, n), fail)
              d == Logged(c, "expire", r, c.ttl)
          IN  Apply(p, c.key, r, IF ~r.ok THEN Goto(d, "fb_tail") ELSE HGetResult(d))

HGetFallbackTry(p) == FallbackTry(p, "hGet", FbHGet)
HGetFallbackTail(p) == FallbackTail(p, "hGet", FbHGet)

\* --------------------------------------------------------------- hGetAll
FbHGetAll == {Obj([f \in {"f"} |-> "Z"]), Null}

\* Object.keys(result).length
NonEmpty(x) == x.t = "obj" /\ DOMAIN x.v # {}

\* hGetAll, lines 58-64
HGetAllStart(p) ==
    /\ CanStart(p)
    /\ \E k \in Keys, ttl \in TtlOpts :
          LET c == [NewCall("hGetAll", k) EXCEPT !.ttl = ttl]
          IN  Begin(p, IF ~isRedisInitialized(redisClient) THEN Goto(c, "fb_tail")
                       ELSE Goto(c, "hgetall_read"))

\* hGetAll, line 69
HGetAllResult(c) == IF NonEmpty(c.result) THEN Finish(c, c.result) ELSE Goto(c, "fb_try")

\* hGetAll, lines 64-72: the read completes
HGetAllRead(p) ==
    /\ calls[p].pc = "hgetall_read" /\ Settled
    /\ \E fail \in Outcomes :
          LET c == calls[p]
              r == Run(c.key, redisHGetAll(c.key), fail)
              d == [[c EXCEPT !.log = Append(@, Cmd("hGetAll", r.ok,
                                                    r.ok /\ NonEmpty(r.val), NoTtl))]
                       EXCEPT !.result = r.val]
          IN  Apply(p, c.key, r,
                    IF ~r.ok THEN Goto(d, "fb_tail")
                    ELSE IF NonEmpty(r.val) /\ TtlPositive(c.ttl)
                         THEN Goto(d, "hgetall_expire")
                    ELSE HGetAllResult(d))

\* hGetAll, lines 66-72: the expire completes
HGetAllExpire(p) ==
    /\ calls[p].pc = "hgetall_expire" /\ Settled
    /\ \E fail \in Outcomes, n \in calls[p].ttl :
          LET c == calls[p]
              r == Run(c.key, redisExpire(c.key, n), fail)
              d == Logged(c, "expire", r, c.ttl)
          IN  Apply(p, c.key, r, IF ~r.ok THEN Goto(d, "fb_tail") ELSE HGetAllResult(d))

HGetAllFallbackTry(p) == FallbackTry(p, "hGetAll", FbHGetAll)
HGetAllFallbackTail(p) == FallbackTail(p, "hGetAll", FbHGetAll)

\* ------------------------------------------------------------------ hDel
\* hDel, lines 77-82
HDelStart(p) ==
    /\ CanStart(p)
    /\ \E k \in Keys, F \in SUBSET Fields \ {{}} :
          LET c == [NewCall("hDel", k) EXCEPT !.flds = F]
          IN  Begin(p, IF ~isRedisInitialized(redisClient) THEN Finish(c, Bool(FALSE))
                       ELSE Goto(c, "hdel_cmd"))

\* hDel, lines 82-86
HDelCmd(p) ==
    /\ calls[p].pc = "hdel_cmd" /\ Settled
    /\ \E fail \in Outcomes :
          LET c == calls[p]
              r == Run(c.key, redisHDel(c.key, c.flds), fail)
          IN  Apply(p, c.key, r, Finish(Logged(c, "hDel", r, NoTtl), Bool(r.ok)))

\* --------------------------------------------------------------- jsonSet
\* the values a caller writes: a document at the root, a number below it
JsonArgs == {<<"$", Obj(d)>> : d \in JsonDocs} \cup {<<"$", Null>>}
            \cup {<<f, Num(n)>> : f \in JFields, n \in JNums}

\* a jsonSet that never reaches the store
JsonSetEnterSkip(c) == Return(c, FALSE)

\* jsonSet, lines 98-104: the gate, then the write is issued
JsonSetEnter(c) ==
    IF ~isRedisInitialized(redisClient) THEN Return(c, FALSE)
    ELSE Goto(c, "jsonset_write")

JsonSetBegin(p, args, ttls) ==
    \E k \in Keys, a \in args, ttl \in ttls :
        Begin(p, JsonSetEnter([NewCall("jsonSet", k) EXCEPT
                                  !.path = a[1], !.value = a[2], !.ttl = ttl]))

JsonSetStart(p) == CanStart(p) /\ JsonSetBegin(p, JsonArgs, TtlOpts)
\* overlapping calls replace the document and pass no ttl
JsonSetStartConc(p) ==
    /\ CanStartConc(p)
    /\ JsonSetBegin(p, {<<"$", Obj([f \in {"b"} |-> n])>> : n \in JNums}, {NoTtl})

\* jsonSet, lines 104-112: the write completes
JsonSetWrite(p) ==
    /\ calls[p].pc = "jsonset_write" /\ Settled
    /\ \E fail \in Outcomes :
          LET c == calls[p]
              r == Run(c.key, redisJsonSet(c.key, c.path, c.value), fail)
              d == Logged(c, "json.set", r, NoTtl)
          IN  Apply(p, c.key, r,
                    IF ~r.ok THEN Return(d, FALSE)
                    ELSE IF TtlTruthy(c.ttl) THEN Goto(d, "jsonset_expire")
                    ELSE Return(d, TRUE))

\* jsonSet, lines 106-112: the expire completes
JsonSetExpire(p) ==
    /\ calls[p].pc = "jsonset_expire" /\ Settled
    /\ \E fail \in Outcomes, n \in calls[p].ttl :
          LET c == calls[p]
              r == Run(c.key, redisExpire(c.key, n), fail)
          IN  Apply(p, c.key, r, Return(Logged(c, "expire", r, c.ttl), r.ok))

\* --------------------------------------------------------------- jsonGet
FbJsonGet == {Obj([f \in {"a"} |-> 1]), Null}
JsonPaths == {"$"} \cup JFields

\* jsonGet, lines 122-130
JsonGetBegin(p, paths, ttls, resets) ==
    \E k \in Keys, path \in paths, ttl \in ttls, reset \in resets :
        LET c == [NewCall("jsonGet", k) EXCEPT !.path = path, !.ttl = ttl,
                                                 !.reset = reset]
        IN  Begin(p, IF ~isRedisInitialized(redisClient) THEN Goto(c, "fb_tail")
                     ELSE Goto(c, "jsonget_read"))

JsonGetStart(p) == CanStart(p) /\ JsonGetBegin(p, JsonPaths, TtlOpts, BOOLEAN)
\* overlapping calls read the whole document with the default options (line 127)
JsonGetStartConc(p) == CanStartConc(p) /\ JsonGetBegin(p, {"$"}, {NoTtl}, {TRUE})

\* jsonGet, line 144
JsonGetResult(c) == IF Truthy(c.result) THEN Finish(c, c.result) ELSE Goto(c, "fb_try")

\* jsonGet, lines 130-147: the read completes
JsonGetRead(p) ==
    /\ calls[p].pc = "jsonget_read" /\ Settled
    /\ \E fail \in Outcomes :
          LET c == calls[p]
              r == Run(c.key, redisJsonGet(c.key, c.path), fail)
              d == [Logged(c, "json.get", r, NoTtl) EXCEPT !.result = r.val]
          IN  Apply(p, c.key, r,
                    CASE ~r.ok -> Goto(d, "fb_tail")
                      [] r.ok /\ Populate(c, r.val) -> Goto(d, "fb_await")
                      [] r.ok /\ ~Populate(c, r.val) /\ Truthy(r.val) /\ TtlPositive(c.ttl) ->
                            Goto(d, "jsonget_expire")
                      [] OTHER -> JsonGetResult(d))

\* jsonGet, lines 132-137: the awaited fallback settles, then jsonSet is
\* entered with the root path
JsonGetFallbackAwait(p) ==
    /\ calls[p].pc = "fb_await" /\ calls[p].op = "jsonGet"
    /\ \E out \in FbJsonGet \cup Failures :
          LET c == Invoked(calls[p], out)
          IN  Local(p, IF out \in Failures THEN Goto(c, "fb_tail")
                       ELSE JsonSetEnter([c EXCEPT !.data = out, !.value = out,
                                                   !.path = "$", !.inner = TRUE]))

\* jsonGet, lines 141-147: the expire completes
JsonGetExpire(p) ==
    /\ calls[p].pc = "jsonget_expire" /\ Settled
    /\ \E fail \in Outcomes, n \in calls[p].ttl :
          LET c == calls[p]
              r == Run(c.key, redisExpire(c.key, n), fail)
              d == Logged(c, "expire", r, c.ttl)
          IN  Apply(p, c.key, r, IF ~r.ok THEN Goto(d, "fb_tail") ELSE JsonGetResult(d))

JsonGetFallbackTry(p) == FallbackTry(p, "jsonGet", FbJsonGet)
JsonGetFallbackTail(p) == FallbackTail(p, "jsonGet", FbJsonGet)

\* -------------------------------------------------------- initializeRedis
\* lines 31-48: nothing when disabled, else create the client and connect
InitStart ==
    /\ initPc = "start"
    /\ initPc' = IF enable THEN "connect" ELSE "done"
    /\ redisClient' = IF enable THEN "connecting" ELSE redisClient
    /\ UNCHANGED <<store, expiry, enable, calls, started>>

\* lines 49-52
ConnectOk ==
    /\ initPc = "connect"
    /\ initPc' = "done"
    /\ redisClient' = "connected"
    /\ UNCHANGED <<store, expiry, enable, calls, started>>

\* lines 53-56
ConnectFail ==
    /\ initPc = "connect"
    /\ initPc' = "done"
    /\ redisClient' = "null"
    /\ UNCHANGED <<store, expiry, enable, calls, started>>

\* ----------------------------------------------------------- environment
\* a key whose time to live runs out disappears
KeyExpires(k) ==
    /\ store[k] # Absent /\ expiry[k] # NoTtl
    /\ store' = [store EXCEPT ![k] = Absent]
    /\ expiry' = [expiry EXCEPT ![k] = NoTtl]
    /\ calls' = Order(Touch(calls, 0, k, TRUE), 0, k, TRUE)
    /\ UNCHANGED <<redisClient, enable, initPc, started>>

\* the caller takes the outcome; the process is free again
Collect(p) ==
    /\ calls[p].pc = "done"
    /\ Local(p, IdleCall)

\* the store outlives the program: at start it can hold anything
Init ==
    /\ store \in [Keys -> StoreVals]
    /\ expiry \in [Keys -> TtlOpts \ {{0}}]
    /\ \A k \in Keys : store[k] = Absent => expiry[k] = NoTtl
    /\ redisClient = "undefined"
    /\ enable \in BOOLEAN
    /\ initPc = "start"
    /\ calls = [p \in Procs |-> IdleCall]
    /\ started = 0

Step(p) ==
    \/ SetStart(p) \/ SetWrite(p) \/ SetExpire(p)
    \/ GetStart(p) \/ GetRead(p) \/ GetFallbackAwait(p)
    \/ GetFallbackTry(p) \/ GetFallbackTail(p)
    \/ DelStart(p) \/ DelCmd(p)
    \/ HSetStart(p) \/ HSetWrite(p) \/ HSetExpire(p)
    \/ HGetStart(p) \/ HGetRead(p) \/ HGetExpire(p)
    \/ HGetFallbackTry(p) \/ HGetFallbackTail(p)
    \/ HGetAllStart(p) \/ HGetAllRead(p) \/ HGetAllExpire(p)
    \/ HGetAllFallbackTry(p) \/ HGetAllFallbackTail(p)
    \/ HDelStart(p) \/ HDelCmd(p)
    \/ JsonSetStart(p) \/ JsonSetWrite(p) \/ JsonSetExpire(p)
    \/ JsonGetStart(p) \/ JsonGetRead(p) \/ JsonGetFallbackAwait(p)
    \/ JsonGetExpire(p) \/ JsonGetFallbackTry(p) \/ JsonGetFallbackTail(p)
    \/ Collect(p)

Next ==
    \/ InitStart \/ ConnectOk \/ ConnectFail
    \/ \E k \in Keys : KeyExpires(k)
    \/ \E p \in Procs : Step(p)

Spec == Init /\ [][Next]_vars

\* Overlapping get, set, jsonGet and jsonSet calls on a connected store, none
\* of them passing a ttl, so that no key expires: initializeRedis has
\* completed, the key is absent or holds a string or a document.
InitConc ==
    /\ store \in [Keys -> {Absent, SJson([f \in {"b"} |-> 1])}
                           \cup {SString(s) : s \in StrVals}]
    /\ expiry = [k \in Keys |-> NoTtl]
    /\ redisClient = "connected"
    /\ enable = TRUE
    /\ initPc = "done"
    /\ calls = [p \in Procs |-> IdleCall]
    /\ started = 0

StepConc(p) ==
    \/ SetStartConc(p) \/ SetWrite(p)
    \/ GetStartConc(p) \/ GetRead(p) \/ GetFallbackAwait(p)
    \/ GetFallbackTail(p)
    \/ JsonSetStartConc(p) \/ JsonSetWrite(p)
    \/ JsonGetStartConc(p) \/ JsonGetRead(p) \/ JsonGetFallbackAwait(p)
    \/ JsonGetFallbackTail(p)

NextConc == \E p \in Procs : StepConc(p)

SpecConc == InitConc /\ [][NextConc]_vars

\* ---------------------------------------------------------------- claims
ReadOps == {"get", "hGet", "hGetAll", "jsonGet"}
WriteCmds == {"set", "hSet", "json.set"}

Done(c) == c.pc = "done"
\* the handle was null or unset when the call passed the gate
Denied(c) == c.op # "none" /\ c.gate \in {"undefined", "null"}
Admitted(c) == c.op # "none" /\ c.gate \in {"connecting", "connected"}
NoStoreError(c) == \A i \in 1..Len(c.log) : c.log[i].ok
NoFallbackFailure(c) == \A i \in 1..Len(c.fbs) : c.fbs[i] \notin Failures
Wrote(c) == \E i \in 1..Len(c.log) : c.log[i].cmd \in WriteCmds
Expired(c) == \E i \in 1..Len(c.log) : c.log[i].cmd = "expire"
ReadHit(c) == Len(c.log) >= 1 /\ c.log[1].ok /\ c.log[1].hit
ReadMiss(c) == Len(c.log) >= 1 /\ c.log[1].ok /\ ~c.log[1].hit
\* what the caller gets when the producer's outcome is handed through
Handed(out) == IF out \in Failures THEN Raised ELSE out

\* C1: a read (get, hGet, hGetAll, jsonGet) started while the handle is null
\* or unset issues no store command, invokes the fallback once and returns
\* exactly its outcome, whatever options were passed; nothing is cached.
C1_DeniedReadIsFallback ==
    \A p \in Procs :
        LET c == calls[p] IN
        (c.op \in ReadOps /\ Denied(c)) =>
            /\ c.log = <<>>
            /\ c.pc \in {"fb_tail", "done"}
            /\ c.pc = "fb_tail" => c.fbs = <<>>
            /\ Done(c) => /\ Len(c.fbs) = 1
                          /\ c.ret = Handed(c.fbs[1])
                          /\ ~c.intf => store[c.key] = c.pre

C1_Witness ==
    \E p \in Procs :
        /\ calls[p].op = "get" /\ Denied(calls[p]) /\ Done(calls[p])
        /\ calls[p].reset /\ calls[p].ttl # NoTtl
        /\ calls[p].pre = Absent
        /\ calls[p].ret = Str("Z")

\* C2: with the handle null or unset, set, hSet and jsonSet return false and
\* del returns true at once, and none of them issues a store command.
C2_DeniedWrites ==
    \A p \in Procs :
        LET c == calls[p] IN
        Denied(c) =>
            /\ c.op \in {"set", "hSet", "jsonSet"} =>
                  Done(c) /\ c.ret = Bool(FALSE) /\ c.log = <<>>
            /\ c.op = "del" => Done(c) /\ c.ret = Bool(TRUE) /\ c.log = <<>>
            /\ (c.op \in {"set", "hSet", "jsonSet", "del"} /\ ~c.intf) =>
                  store[c.key] = c.pre

C2_Witness ==
    /\ \E p \in Procs : /\ calls[p].op = "del" /\ Denied(calls[p])
                        /\ calls[p].ret = Bool(TRUE)
                        /\ store[calls[p].key] # Absent
    /\ redisClient = "null"

\* C3: when the fallback producer does not fail, no operation raises to its
\* caller wherever a store command fails: set, hSet, jsonSet, del and hDel end
\* with a boolean, and a read in which a store command failed, the write-back
\* of get and jsonGet included, ends with the fallback's result; a call in
\* flight on a settled connection always has a next step.
C3_NoThrow ==
    \A p \in Procs :
        LET c == calls[p] IN
        /\ (Done(c) /\ NoFallbackFailure(c)) =>
              /\ c.ret # Raised
              /\ c.op \notin ReadOps => c.ret.t = "bool"
              /\ (c.op \in ReadOps /\ ~NoStoreError(c)) =>
                    Len(c.fbs) = 1 /\ c.ret = c.fbs[1]
        /\ (c.pc \notin {"idle", "done"} /\ Settled) => ENABLED Step(p)

C3_Witness ==
    \E p \in Procs :
        LET c == calls[p] IN
        /\ c.op = "get" /\ Done(c) /\ Len(c.log) = 2
        /\ c.log[1].ok /\ c.log[2].cmd = "set" /\ ~c.log[2].ok
        /\ c.ret = Str("Z")

\* C4: sliding expiration on get: when the store is available, the key holds
\* a non-empty string with some expiry, get is called with a non-zero ttl T
\* and no store command fails, the call returns the stored string, issues
\* expire(key, T) so that the key's expiry becomes T, and does not invoke the
\* fallback.
C4_GetSlidingExpiration ==
    \A p \in Procs :
        LET c == calls[p] IN
        (c.op = "get" /\ Done(c) /\ Admitted(c) /\ TtlTruthy(c.ttl)
           /\ ReadHit(c) /\ NoStoreError(c) /\ ~c.intf
           /\ expiry[c.key] # NoTtl) =>
            /\ c.ret = c.result
            /\ c.fbs = <<>>
            /\ \E i \in 1..Len(c.log) :
                  c.log[i].cmd = "expire" /\ c.log[i].arg = c.ttl
            /\ expiry[c.key] = c.ttl

\* C5: hit path of every read: with the store available, no store error and
\* the requested entry present and non-empty, the call returns the stored
\* value, never invokes the fallback and never issues a write, so what the
\* key holds is unchanged.
C5_HitReturnsStored ==
    \A p \in Procs :
        LET c == calls[p] IN
        (c.op \in ReadOps /\ Admitted(c) /\ ReadHit(c) /\ NoStoreError(c)) =>
            /\ c.fbs = <<>>
            /\ ~Wrote(c)
            /\ c.pc # "fb_try" /\ c.pc # "fb_tail" /\ c.pc # "fb_await"
            /\ Done(c) => c.ret = c.result /\ Truthy(c.ret)
            /\ ~c.intf => store[c.key] = c.pre

C5_Witness ==
    \E p \in Procs :
        LET c == calls[p] IN
        /\ c.op = "hGet" /\ Done(c) /\ ReadHit(c) /\ NoStoreError(c)
        /\ Len(c.log) = 2 /\ c.ret = Str("Y")

\* C6: miss populates by default: with the store available, the key absent,
\* no store error and nothing else acting on the key, get with the default
\* resetIfNotFound and bypassFallbackIfNotFound whose fallback yields a truthy
\* string X returns X and a raw read of the key then returns X, with expiry
\* equal to the ttl option when a non-zero one was passed and no expiry when
\* none was; when the fallback yields a falsy value nothing is written and
\* that value is returned.
C6_MissPopulates ==
    \A p \in Procs :
        LET c == calls[p] IN
        (c.op = "get" /\ Done(c) /\ Admitted(c) /\ c.reset /\ ~c.bypass
           /\ c.ttl # {0} /\ c.pre = Absent /\ NoStoreError(c)
           /\ NoFallbackFailure(c) /\ ~c.intf) =>
            /\ Len(c.fbs) = 1 /\ c.ret = c.fbs[1]
            /\ Truthy(c.fbs[1]) => /\ redisGet(c.key).ok
                                   /\ redisGet(c.key).val = c.fbs[1]
                                   /\ expiry[c.key] = c.ttl
            /\ ~Truthy(c.fbs[1]) => Len(c.log) = 1 /\ store[c.key] = Absent

C6_Witness ==
    \E p \in Procs :
        LET c == calls[p] IN
        /\ c.op = "get" /\ Done(c) /\ c.pre = Absent /\ ~c.intf
        /\ c.ret = Str("Z") /\ store[c.key] = SString("Z")
        /\ c.ttl = {MaxTtl} /\ expiry[c.key] = {MaxTtl}

\* C7: on a miss, every get that passes bypassFallbackIfNotFound = true
\* returns the raw miss value without invoking the fallback and without
\* writing, also when resetIfNotFound is left at its default true.
C7_BypassSkipsFallback ==
    \A p \in Procs :
        LET c == calls[p] IN
        (c.op = "get" /\ c.bypass /\ Admitted(c) /\ ReadMiss(c) /\ Done(c)) =>
            /\ c.fbs = <<>>
            /\ ~Wrote(c)
            /\ c.ret = c.result

\* C8: with resetIfNotFound = false and bypassFallbackIfNotFound not set, a
\* miss in get or jsonGet invokes the fallback once, returns its result and
\* issues no write or expire: the key holds what it held before.
C8_NoResetNoWrite ==
    \A p \in Procs :
        LET c == calls[p] IN
        (c.op \in {"get", "jsonGet"} /\ ~c.reset /\ ~c.bypass /\ Admitted(c)
           /\ ReadMiss(c) /\ NoFallbackFailure(c)) =>
            /\ Len(c.log) = 1
            /\ c.pc \in {"fb_try", "done"}
            /\ Done(c) => Len(c.fbs) = 1 /\ c.ret = c.fbs[1]
            /\ ~c.intf => store[c.key] = c.pre

C8_Witness ==
    \E p \in Procs :
        LET c == calls[p] IN
        /\ c.op = "get" /\ ~c.reset /\ ~c.bypass /\ Done(c) /\ ReadMiss(c)
        /\ c.ttl # NoTtl /\ c.ret = Str("Z") /\ store[c.key] = Absent

\* C9: an expire(key, ttl) is issued only after, in the same call, a write to
\* the key succeeded or a read of the key returned a hit; no operation issues
\* expire after observing a miss.
C9_ExpireOnlyOnPresence ==
    \A p \in Procs :
        LET c == calls[p] IN
        \A i \in 1..Len(c.log) :
            c.log[i].cmd = "expire" =>
                \E j \in 1..(i - 1) :
                    /\ c.log[j].ok
                    /\ c.log[j].cmd \in WriteCmds \/ c.log[j].hit

\* C10: hGet and hGetAll never issue a write on any path; after hGet misses on
\* a field and returns the fallback's result, the hash at the key has exactly
\* the fields and values it had before the call and the field is still absent.
C10_HashReadsNeverPopulate ==
    \A p \in Procs :
        LET c == calls[p] IN
        c.op \in {"hGet", "hGetAll"} =>
            /\ ~Wrote(c)
            /\ \A i \in 1..Len(c.log) : c.log[i].cmd \in {"hGet", "hGetAll", "expire"}
            /\ (c.op = "hGet" /\ Done(c) /\ ReadMiss(c) /\ ~c.intf) =>
                  /\ store[c.key] = c.pre
                  /\ \A f \in c.flds : ~Truthy(redisHGet(c.key, f).val)

C10_Witness ==
    \E p \in Procs :
        LET c == calls[p] IN
        /\ c.op = "hGet" /\ Done(c) /\ ReadMiss(c) /\ ~c.intf
        /\ c.flds = {"f"} /\ c.ret = Str("Z") /\ Expired(c)
        /\ store[c.key].t = "hash" /\ DOMAIN store[c.key].v = {"g"}

\* the document a JavaScript value becomes when written at the root
AsDoc(x) == IF x.t = "obj" THEN SJson(x.v) ELSE SJsonNull

\* C11: JSON miss replaces the whole document: when jsonGet with
\* resetIfNotFound = true reads at any path, a sub-path of an existing document
\* included, and the read reports a miss, the fallback's result D is written
\* at the root path, so that with no store error and nothing else acting on
\* the key the document at the key is afterwards exactly D, and D is returned.
C11_JsonMissReplacesDocument ==
    \A p \in Procs :
        LET c == calls[p] IN
        (c.op = "jsonGet" /\ Done(c) /\ Admitted(c) /\ c.reset /\ ReadMiss(c)
           /\ NoStoreError(c) /\ NoFallbackFailure(c) /\ ~c.intf) =>
            /\ Len(c.fbs) = 1 /\ c.ret = c.fbs[1]
            /\ Len(c.log) >= 2 /\ c.log[2].cmd = "json.set" /\ c.path = "$"
            /\ store[c.key] = AsDoc(c.fbs[1])
            /\ redisJsonGet(c.key, "$").val = c.fbs[1]

C11_Witness ==
    \E p \in Procs :
        LET c == calls[p] IN
        /\ c.op = "jsonGet" /\ Done(c) /\ ReadMiss(c) /\ ~c.intf
        /\ c.pre = SJson([f \in {"b"} |-> 1])
        /\ store[c.key] = SJson([f \in {"a"} |-> 1])
        /\ c.ret = Obj([f \in {"a"} |-> 1])

\* C12: a failure of the fallback producer is not handled by the accessor: in
\* every read and on every path on which the fallback is invoked, a fallback
\* failure reaches the caller unmodified; it is not caught, the fallback is not
\* invoked again and no other outcome replaces the failure.
C12_FallbackFailurePropagates ==
    \A p \in Procs :
        LET c == calls[p] IN
        (c.op \in ReadOps /\ Done(c) /\ ~NoFallbackFailure(c)) =>
            /\ Len(c.fbs) = 1
            /\ c.ret = Raised

\* C13: whenever set(key, v, {ttl}) returns true and nothing else touches the
\* key, the store then holds v at the key with expiry equal to ttl, for every
\* supplied ttl, 0 included; the same for the write-back get performs on a
\* miss with the ttl it was given.
C13_SetLeavesValueWithTtl ==
    \A p \in Procs :
        LET c == calls[p] IN
        (c.op \in {"set", "get"} /\ Done(c) /\ Wrote(c) /\ NoStoreError(c)
           /\ isDefined(c.ttl) /\ ~c.intf
           /\ (c.op = "set" => c.ret = Bool(TRUE))) =>
            /\ store[c.key] = SString(c.value.v)
            /\ expiry[c.key] = c.ttl

\* C15: in set, hSet and jsonSet the expire comes strictly after the write and
\* only on its success, and the operation returns true exactly when the handle
\* was available and every store command it issued succeeded; del and hDel on
\* an available store return true exactly when the delete command succeeded,
\* also when the key or the fields were absent.
WriteOf(op) ==
    CASE op = "set" -> "set" [] op = "hSet" -> "hSet" [] OTHER -> "json.set"

C15_ExpireAfterWrite ==
    \A p \in Procs :
        LET c == calls[p] IN
        /\ c.op \in {"set", "hSet", "jsonSet"} =>
              /\ Len(c.log) <= 2
              /\ Len(c.log) >= 1 => c.log[1].cmd = WriteOf(c.op)
              /\ Len(c.log) = 2 => c.log[2].cmd = "expire" /\ c.log[1].ok
              /\ Done(c) => c.ret = Bool(Admitted(c) /\ Len(c.log) >= 1
                                          /\ NoStoreError(c))
        /\ (c.op \in {"del", "hDel"} /\ Admitted(c) /\ Done(c)) =>
              /\ Len(c.log) = 1
              /\ c.ret = Bool(c.log[1].ok)

C15_Witness ==
    \E p \in Procs :
        LET c == calls[p] IN
        /\ c.op = "hSet" /\ Done(c) /\ Len(c.log) = 2
        /\ c.log[1].ok /\ ~c.log[2].ok /\ c.ret = Bool(FALSE)

\* C16: with the handle null or unset, hDel returns true exactly as del does,
\* without contacting the store.
C16_HDelDeniedIsTrue ==
    \A p \in Procs :
        LET c == calls[p] IN
        (c.op = "hDel" /\ Denied(c)) =>
            Done(c) /\ c.ret = Bool(TRUE) /\ c.log = <<>>

\* C17: each call of get, hGet, hGetAll or jsonGet invokes the fallback
\* producer at most once on every path, also when a store command fails or the
\* fallback itself fails inside the miss branch.
C17_FallbackAtMostOnce ==
    \A p \in Procs : Len(calls[p].fbs) <= 1

\* C18: the gate admits an operation only when the connection is established:
\* an operation started before connect resolves, after connect failed, or
\* with redis disabled takes the unavailable path and issues no store command,
\* and after a failed connect the handle is null.
C18_GateNeedsConnection ==
    /\ \A p \in Procs :
          LET c == calls[p] IN
          (c.op # "none" /\ c.gate # "connected") =>
              c.log = <<>> /\ c.pc \in {"fb_tail", "done"}
    /\ (initPc = "done" /\ enable) => redisClient \in {"connected", "null"}
    /\ ~enable => redisClient = "undefined"


\* what the last write of a call leaves at the key
Stored(c) == IF c.op \in {"get", "set"} THEN SString(c.value.v) ELSE AsDoc(c.value)
DefaultOptions(c) == c.reset /\ ~c.bypass /\ c.ttl = NoTtl
Quiescent == \A p \in Procs : calls[p].pc \in {"idle", "done"}

\* C14: overlapping get (or jsonGet) calls with default options on an
\* available store do not exclude one another: a call in flight can always
\* take its next step whatever the positions of the other calls; each call
\* that read a miss and whose fallback did not fail invoked the fallback
\* exactly once, sent its own result to the store (get only when it is
\* truthy) and returns that result; and the key holds what the call whose
\* write the store executed last has written, so that once all calls have
\* finished and any write succeeded, the stored value is the last writer's.
C14_ConcurrentMisses ==
    /\ \A p \in Procs :
          LET c == calls[p] IN
          (c.op \in {"get", "jsonGet"} /\ DefaultOptions(c) /\ Admitted(c)) =>
              /\ c.pc \notin {"idle", "done"} => ENABLED StepConc(p)
              /\ (Done(c) /\ ReadMiss(c) /\ NoFallbackFailure(c)) =>
                    /\ Len(c.fbs) = 1
                    /\ c.ret = c.fbs[1]
                    /\ (c.op = "jsonGet" \/ Truthy(c.fbs[1])) =>
                          /\ Len(c.log) = 2
                          /\ c.log[2].cmd = (IF c.op = "get" THEN "set" ELSE "json.set")
                          /\ c.value = c.fbs[1]
                    /\ (c.op = "get" /\ ~Truthy(c.fbs[1])) => Len(c.log) = 1
              /\ c.last => store[c.key] = Stored(c)
    /\ (Quiescent /\ \E p \in Procs : Wrote(calls[p]) /\ NoStoreError(calls[p])) =>
          \E p \in Procs : calls[p].last /\ store[calls[p].key] = Stored(calls[p])

\* two gets both read the miss before either wrote back; the one that
\* started first wrote last, and its value is the one stored
C14_Witness ==
    /\ \A p \in {1, 2} : /\ calls[p].op = "get" /\ Done(calls[p])
                          /\ calls[p].pre = Absent
                          /\ ReadMiss(calls[p]) /\ Wrote(calls[p])
                          /\ NoStoreError(calls[p])
                          /\ calls[p].ret = calls[p].fbs[1]
    /\ calls[1].fbs[1] = Str("Z") /\ calls[2].fbs[1] = Str("W")
    /\ calls[1].last /\ ~calls[2].last
    /\ store[calls[1].key] = SString("Z")

\* p is the only explicit write: a set or jsonSet of a truthy value that
\* returned true, every other call is a get or a jsonGet, and all calls have
\* finished
OnlyWrite(p) ==
    /\ calls[p].op \in {"set", "jsonSet"}
    /\ Done(calls[p]) /\ calls[p].ret = Bool(TRUE)
    /\ Truthy(calls[p].value)
    /\ Quiescent
    /\ \A q \in Procs \ {p} : calls[q].op \in {"none", "get", "jsonGet"}

\* C19 as stated: a completed explicit write is not lost to a stale cache
\* population: when set(k, v) (or jsonSet) returned true, no other set, del or
\* expiry of k happens and every get (or jsonGet) on k has finished, the key
\* still holds v.
C19_WriteNotLost ==
    \A p \in Procs : OnlyWrite(p) => store[calls[p].key] = Stored(calls[p])

\* C19: when set(k, v) (or jsonSet) returned true, no other set, del or
\* expiry of k happens and every get (or jsonGet) on k has finished, the key
\* holds v unless a get (or jsonGet) that read a miss wrote its fallback
\* result back after the write: then the key holds the value of the call
\* whose write-back the store executed last.
C19_WriteLostOnlyToWriteBack ==
    \A p \in Procs :
        OnlyWrite(p) =>
            \E q \in Procs :
                /\ calls[q].last
                /\ store[calls[p].key] = Stored(calls[q])
                /\ q # p => /\ calls[q].op \in {"get", "jsonGet"}
                            /\ ReadMiss(calls[q])
                            /\ Len(calls[q].fbs) = 1
                            /\ calls[q].value = calls[q].fbs[1]
                            /\ calls[q].ret = calls[q].fbs[1]

\* a get read the miss, set wrote "X" and returned true, then the get wrote
\* its older fallback value over it
C19_Witness ==
    \E p, q \in Procs :
        /\ OnlyWrite(p) /\ calls[p].op = "set" /\ calls[p].value = Str("X")
        /\ calls[q].op = "get" /\ Done(calls[q]) /\ ReadMiss(calls[q])
        /\ calls[q].pre = Absent
        /\ calls[q].fbs = <<Str("Z")>>
        /\ calls[q].last /\ ~calls[p].last
        /\ store[calls[p].key] = SString("Z")
====
